---- MODULE Spec2Model ----
(***************************************************************************)
(* gamm: per-repository git identity manager.                              *)
(*                                                                         *)
(* The model covers the two JSON-backed stores (store.rs, repo.rs), the    *)
(* global git configuration reached through the `git config --global`     *)
(* subprocess, the hook file, and the subcommands of command.rs that read  *)
(* and write them.                                                         *)
(*                                                                         *)
(* Text is modelled as a sequence of tokens (<<"Test User">>, <<" ", "Test User">>), so    *)
(* that trimming and emptiness tests are computed, never assumed.          *)
(* Option<T> is a sequence of length 0 (None) or 1 (Some).                 *)
(***************************************************************************)
EXTENDS Naturals, Sequences, FiniteSets, TLC

VARIABLES
    cfgFile,    \* ~/.config/gamm/config.json : [exists, data]
    repoFile,   \* ~/.config/gamm/repos.json  : [exists, data]
    git,        \* the global git configuration: key -> Option(text)
    pc,         \* position of each gamm process
    loc,        \* local variables of each gamm process
    hist,       \* per-process record of what the current/last run observed
    del,        \* record of the last profile_delete invocation
    ap,         \* record of a direct call of apply_git_config
    faults,     \* failed subprocess invocations and file writes so far
    hook,       \* ~/.githooks and its pre-commit file, ~/.config/gamm
    cli,        \* record of the last init, cleanup or repo_delete invocation
    mem         \* in-memory stores driven by direct calls of their methods

vars == <<cfgFile, repoFile, git, pc, loc, hist, del, ap, faults, hook, cli, mem>>

-----------------------------------------------------------------------------
(* Option<T>                                                               *)

None == <<>>
Some(x) == <<x>>
IsSome(o) == Len(o) = 1
Unwrap(o) == o[1]

-----------------------------------------------------------------------------
(* Text                                                                    *)

IsWhitespace(c) == c \in {" ", "\n"}

RECURSIVE TrimStart(_)
TrimStart(s) ==
    IF s = <<>> THEN <<>>
    ELSE IF IsWhitespace(Head(s)) THEN TrimStart(Tail(s)) ELSE s

RECURSIVE TrimEnd(_)
TrimEnd(s) ==
    IF s = <<>> THEN <<>>
    ELSE IF IsWhitespace(s[Len(s)]) THEN TrimEnd(SubSeq(s, 1, Len(s) - 1)) ELSE s

\* str::trim
Trim(s) == TrimEnd(TrimStart(s))

-----------------------------------------------------------------------------
(* Bounds and input domains                                                *)

\* longest url-rewrite list of a profile handed to the applier
MaxRewrites == 2

\* how many subprocess invocations and file writes may fail in one session
MaxFaults == 1

ProfileNames == {"work", "home"}

\* user.name / user.email values of the profiles handed to the applier
TypedNames == {<<>>, <<"Test User">>, <<"Other User">>}
TypedEmails == {<<>>, <<"test@example.com">>}

\* what the global configuration may hold before gamm is first run
PresetNames == {<<" ", "Test User">>}
PresetEmails == {<<"test@example.com">>}

Patterns == {"git@github.com:"}
InsteadOfs == {<<"https://github.com/">>, <<"https://gh/">>}

-----------------------------------------------------------------------------
(* store.rs: profiles                                                      *)

UserConfig(name, email, signoff) ==
    [name |-> name, email |-> email, signoff |-> signoff]

UrlConfig(pattern, instead_of) ==
    [pattern |-> pattern, instead_of |-> instead_of]

CommitConfig(gpgsign) == [gpgsign |-> gpgsign]

GitConfig(user, urls, commit) == [user |-> user, urls |-> urls, commit |-> commit]

\* the profile of the store's unit tests
sample_config ==
    GitConfig(UserConfig(<<"Test User">>, <<"test@example.com">>, Some(<<"test">>)),
              <<UrlConfig("git@github.com:", <<"https://github.com/">>)>>,
              CommitConfig(TRUE))

\* ConfigStore::new / RepoStore::new : the empty map
NewStore == <<>>

\* A store file: whether it exists, whether its content parses as the
\* store's JSON (valid), and the store that content stands for.
NoFile == [exists |-> FALSE, valid |-> TRUE, data |-> NewStore]

\* a file whose content is not the JSON of a store
Malformed == [exists |-> TRUE, valid |-> FALSE, data |-> NewStore]

LoadFailsMutant(file) == FALSE

\* load returns Err(InvalidData) when serde_json::from_str fails
LoadFails(file) == file.exists /\ ~file.valid

\* load: the file's content, or an empty store when the file is absent
Load(file) == IF file.exists THEN file.data ELSE NewStore

\* save: whole-file overwrite
Save(store) == [exists |-> TRUE, valid |-> TRUE, data |-> store]

InsertMutant(map, key, value) ==
    [k \in (DOMAIN map) \cup {key} |-> IF k \in DOMAIN map THEN map[k] ELSE value]

\* HashMap::insert
Insert(map, key, value) ==
    [k \in (DOMAIN map) \cup {key} |-> IF k = key THEN value ELSE map[k]]

\* HashMap::remove, the map that is left
Without(map, key) == [k \in (DOMAIN map) \ {key} |-> map[k]]

\* HashMap::get
Get(map, key) == IF key \in DOMAIN map THEN Some(map[key]) ELSE None

-----------------------------------------------------------------------------
(* store.rs, repo.rs: the persisted form (serde_json)                      *)
(*                                                                         *)
(* A JSON value is a record: t names its type, v holds its content.        *)

JNull == [t |-> "null", v |-> <<>>]
JString(s) == [t |-> "string", v |-> s]
JBool(b) == [t |-> "bool", v |-> b]
JArray(a) == [t |-> "array", v |-> a]
JObject(members) == [t |-> "object", v |-> members]

OptionToJsonMutant(o) == JString(IF IsSome(o) THEN Unwrap(o) ELSE <<>>)

\* Serialize for Option<String>: null or the string
OptionToJson(o) == IF IsSome(o) THEN JString(Unwrap(o)) ELSE JNull

\* Deserialize for Option<String>
OptionFromJson(j) == IF j.t = "null" THEN None ELSE Some(j.v)

\* derive(Serialize) for GitConfig and the structs in it
GitConfigToJson(g) ==
    JObject([user |-> JObject([email |-> JString(g.user.email),
                               name |-> JString(g.user.name),
                               signoff |-> OptionToJson(g.user.signoff)]),
             urls |-> JArray([i \in DOMAIN g.urls |->
                                JObject([pattern |-> JString(g.urls[i].pattern),
                                         instead_of |-> JString(g.urls[i].instead_of)])]),
             commit |-> JObject([gpgsign |-> JBool(g.commit.gpgsign)])])

\* derive(Deserialize) for the same
GitConfigFromJson(j) ==
    GitConfig(UserConfig(j.v.user.v.name.v, j.v.user.v.email.v,
                         OptionFromJson(j.v.user.v.signoff)),
              [i \in DOMAIN j.v.urls.v |->
                  UrlConfig(j.v.urls.v[i].v.pattern.v, j.v.urls.v[i].v.instead_of.v)],
              CommitConfig(j.v.commit.v.gpgsign.v))

\* ConfigStore: #[serde(flatten)] puts the profiles at the top level
ConfigStoreToJson(configs) ==
    JObject([n \in DOMAIN configs |-> GitConfigToJson(configs[n])])

ConfigStoreFromJson(j) == [n \in DOMAIN j.v |-> GitConfigFromJson(j.v[n])]

\* RepoStore: one member "repos", an object keyed by url, of Repo objects
RepoStoreToJson(repos) ==
    JObject([repos |-> JObject([u \in DOMAIN repos |->
                JObject([repo_name |-> JString(repos[u].repo_name),
                         url |-> JString(repos[u].url),
                         commit_by |-> JString(repos[u].commit_by)])])])

RepoStoreFromJson(j) ==
    [u \in DOMAIN j.v.repos.v |->
        [repo_name |-> j.v.repos.v[u].v.repo_name.v, url |-> j.v.repos.v[u].v.url.v,
         commit_by |-> j.v.repos.v[u].v.commit_by.v]]

-----------------------------------------------------------------------------
(* The global git configuration and the `git config --global` subprocess   *)

KeyUserName == <<"user", "name">>
KeyUserEmail == <<"user", "email">>
KeyGpgSign == <<"commit", "gpgsign">>
KeyInsteadOf(pattern) == <<"url", pattern, "insteadOf">>

GitKeys ==
    {KeyUserName, KeyUserEmail, KeyGpgSign} \cup {KeyInsteadOf(p) : p \in Patterns}

\* `git config --global <key>`: prints the value and a newline, or fails when unset
GitGet(g, key) ==
    IF IsSome(g[key])
    THEN [success |-> TRUE, stdout |-> Unwrap(g[key]) \o <<"\n">>]
    ELSE [success |-> FALSE, stdout |-> <<>>]

\* `git config --global <key> <value>`
GitSet(g, key, value) == [g EXCEPT ![key] = Some(value)]

\* How one subprocess invocation can end: it ran and exited zero ("ok"), it
\* ran and exited non-zero without writing ("nonzero"), or it could not be
\* started at all ("spawn": Command::status returns Err).
Outcomes == {"ok", "nonzero", "spawn"}

Failures(oc) == Cardinality({i \in DOMAIN oc : oc[i] /= "ok"})

\* the fates of n invocations of which at most k go wrong
OutcomeVectors(n, k) == {oc \in [1..n -> Outcomes] : Failures(oc) <= k}

get_current_git_email(g, spawned) ==
    IF ~spawned THEN None
    ELSE LET out == GitGet(g, KeyUserEmail) IN
         IF out.success /\ Trim(out.stdout) /= <<>>
         THEN Some(Trim(out.stdout)) ELSE None

get_current_git_name(g, spawned) ==
    IF ~spawned THEN None
    ELSE LET out == GitGet(g, KeyUserName) IN
         IF out.success /\ Trim(out.stdout) /= <<>>
         THEN Some(Trim(out.stdout)) ELSE None

BoolText(b) == IF b THEN <<"true">> ELSE <<"false">>

\* Runs the invocations `cmds` in order against g under outcome vector oc
\* (oc[i] is the fate of the i-th invocation). `.status()?` returns early
\* only when the subprocess could not be spawned; its exit status is dropped.
RECURSIVE RunCommands(_, _, _, _)
RunCommands(g, cmds, oc, i) ==
    IF i > Len(cmds) THEN [git |-> g, err |-> FALSE, ran |-> Len(cmds)]
    ELSE IF oc[i] = "spawn" THEN [git |-> g, err |-> TRUE, ran |-> i - 1]
    ELSE RunCommands(IF oc[i] = "ok" THEN GitSet(g, cmds[i].key, cmds[i].value) ELSE g,
                     cmds, oc, i + 1)

Cmd(key, value) == [key |-> key, value |-> value]

RewriteCommands(urls) ==
    [i \in 1..Len(urls) |-> Cmd(KeyInsteadOf(urls[i].pattern), urls[i].instead_of)]

ApplyCommandsUnguarded(config) ==
    <<Cmd(KeyUserName, config.user.name), Cmd(KeyUserEmail, config.user.email),
      Cmd(KeyGpgSign, BoolText(config.commit.gpgsign))>>
    \o RewriteCommands(config.urls)

\* the invocations apply_git_config makes for a profile, in order
ApplyCommands(config) ==
    (IF config.user.name /= <<>> THEN <<Cmd(KeyUserName, config.user.name)>> ELSE <<>>)
    \o (IF config.user.email /= <<>> THEN <<Cmd(KeyUserEmail, config.user.email)>> ELSE <<>>)
    \o <<Cmd(KeyGpgSign, BoolText(config.commit.gpgsign))>>
    \o RewriteCommands(config.urls)

apply_git_config(config, g, oc) == RunCommands(g, ApplyCommands(config), oc, 1)

-----------------------------------------------------------------------------
(* repo.rs: repository entries                                             *)

Repo(repo_name, url, commit_by) ==
    [repo_name |-> repo_name, url |-> url, commit_by |-> commit_by]

RepoAddMutant(repos, repo) == Insert(repos, repo.repo_name, repo)

\* RepoStore::add : keyed by the entry's url
RepoAdd(repos, repo) == Insert(repos, repo.url, repo)

\* RepoStore::lookup_owner_by_url
lookup_owner_by_url(repos, url) ==
    IF url \in DOMAIN repos THEN Some(repos[url].commit_by) ELSE None

\* RepoStore::find_by_owner : the entries whose commit_by is the profile
find_by_owner(repos, commit_by) ==
    {repos[u] : u \in {v \in DOMAIN repos : repos[v].commit_by = commit_by}}

\* RepoStore::remove_by_url applied to each url of a set
RECURSIVE RemoveAll(_, _)
RemoveAll(repos, urls) ==
    IF urls = {} THEN repos
    ELSE LET u == CHOOSE v \in urls : TRUE
         IN RemoveAll(Without(repos, u), urls \ {u})

\* RepoStore::add_repo : the entry built from its fields, keyed by url
RepoAddRepo(repos, repo_name, url, commit_by) ==
    Insert(repos, url, Repo(repo_name, url, commit_by))

\* RepoStore::remove_by_url, the map that is left
remove_by_url(repos, url) == Without(repos, url)

\* Remote urls, as text split at the path separator
Urls ==
    {<<"git@example.com:a", "/", "b", ".git">>, <<"https://example.com", "/", "c">>}

\* the part of the url after its last '/'
RECURSIVE LastSegment(_)
LastSegment(url) ==
    IF url = <<>> THEN <<>>
    ELSE IF url[Len(url)] = "/" THEN <<>>
    ELSE LastSegment(SubSeq(url, 1, Len(url) - 1)) \o <<url[Len(url)]>>

\* str::trim_end_matches(".git")
RECURSIVE TrimEndGit(_)
TrimEndGit(s) ==
    IF s /= <<>> /\ s[Len(s)] = ".git" THEN TrimEndGit(SubSeq(s, 1, Len(s) - 1)) ELSE s

\* the default offered at the repository-name prompt
DefaultRepoName(url) == TrimEndGit(LastSegment(url))

\* the answers to the repository-name prompt
RepoNames(url) == {DefaultRepoName(url)}

-----------------------------------------------------------------------------
(* command.rs: the pieces of pre_commit                                    *)

\* current.as_ref().map_or(false, |c| c == expected)
Matches(current, expected) == IsSome(current) /\ Unwrap(current) = expected

NeedsApplyBoth(email_matches, name_matches) == ~email_matches /\ ~name_matches

NeedsApplyAlways(email_matches, name_matches) == TRUE

\* the test that sends a verified repository to Apply
NeedsApply(email_matches, name_matches) == ~(email_matches /\ name_matches)

\* HashMap::keys collected into a Vec: the keys in some order
Orders(S) ==
    {o \in [1..Cardinality(S) -> S] : \A i, j \in 1..Cardinality(S) : o[i] = o[j] => i = j}

\* the identities a user may enter at the user.name, user.email and GPG
\* prompts of add_config_interactive (the defaults the prompts offer are
\* answers like any other)
Identities ==
    {[user_name |-> <<"Other User">>, user_email |-> <<"test@example.com">>, gpgsign |-> FALSE],
     [user_name |-> <<"Test User">>, user_email |-> <<>>, gpgsign |-> FALSE]}

\* the answers to the prompts of add_config_interactive, with the fate of
\* the save and of the three subprocess invocations that follow, of which
\* at most k fail
AddConfigInputs(k) ==
    {[profile_name |-> n, user_name |-> id.user_name, user_email |-> id.user_email,
      gpgsign |-> id.gpgsign, saveOk |-> ok, oc |-> oc] :
        n \in ProfileNames, id \in Identities, ok \in BOOLEAN,
        oc \in OutcomeVectors(3, k)}

AllOk(oc) == \A i \in DOMAIN oc : oc[i] = "ok"

\* failures among the save and the invocations of one add_config_interactive
AddConfigFaults(in) == IF in.saveOk THEN Failures(in.oc) ELSE 1

\* add_config_interactive: the in-memory store, the profile file and the
\* global configuration it leaves, and whether it returned Err
add_config_interactive(config_store, file, g, in) ==
    LET git_config == GitConfig(UserConfig(in.user_name, in.user_email, None),
                                <<>>, CommitConfig(in.gpgsign))
        added == Insert(config_store, in.profile_name, git_config)
        cmds == <<Cmd(KeyUserName, git_config.user.name),
                  Cmd(KeyUserEmail, git_config.user.email),
                  Cmd(KeyGpgSign, BoolText(git_config.commit.gpgsign))>>
        r == RunCommands(g, cmds, in.oc, 1)
    IN  IF ~in.saveOk
        THEN [config_store |-> added, file |-> file, git |-> g,
              err |-> TRUE, toolsOk |-> TRUE, ioOk |-> FALSE]
        ELSE [config_store |-> added, file |-> Save(added), git |-> r.git,
              err |-> r.err, toolsOk |-> AllOk(in.oc), ioOk |-> TRUE]

-----------------------------------------------------------------------------
(* Processes                                                               *)

Procs == {1, 2}

\* the process that runs the commands of a sequential session
Main == 1

GitUnset == [k \in GitKeys |-> None]

World == [cfg |-> cfgFile, repos |-> repoFile, git |-> git]

LocIdle ==
    [url |-> <<>>, repo_store |-> NewStore, config_store |-> NewStore,
     profiles |-> <<>>, repo_name |-> <<>>, owner |-> "", fresh |-> NewStore]

\* What a run has seen and done so far (bookkeeping for the properties):
\*   snap     the two files and the global configuration when the run began
\*   branch   "dangling", "verified" or "unknown", as decided by the lookup
\*   read     whether the global identity was read for the comparison
\*   applied  the profile handed to apply_git_config, if it was called
\*   toolsOk  every subprocess write of the run exited zero
\*   ioOk     every file write of the run succeeded
\*   agreed   the answer to "add this repository?", if it was asked
\*   created  the profiles created by the run
\*   warned   the dangling-reference warning was printed
\*   retry    the run directly follows a run for the same url that called
\*            apply_git_config, with no failed invocation or write in it
\*   result   how the run ended: "Ok", "Err" or "exit(1)", once pc = "done"
\*   exit     the exit status of the process, once pc = "done"
HistIdle ==
    [snap |-> [cfg |-> NoFile, repos |-> NoFile, git |-> GitUnset],
     branch |-> "", read |-> FALSE, cur_name |-> None, cur_email |-> None,
     applied |-> None, toolsOk |-> TRUE, ioOk |-> TRUE, agreed |-> None,
     created |-> {}, warned |-> FALSE, retry |-> FALSE, result |-> "", exit |-> 0]

DelIdle ==
    [ran |-> FALSE, target |-> None, exit |-> 0, ioOk |-> TRUE,
     cfg |-> NoFile, repos |-> NoFile]

ApIdle ==
    [called |-> FALSE, config |-> GitConfig(UserConfig(<<>>, <<>>, None), <<>>,
                                            CommitConfig(FALSE)),
     before |-> GitUnset, oc |-> <<>>, err |-> FALSE, ran |-> 0]

\* the hook file system: ~/.githooks (dir), whether it holds a file besides
\* pre-commit (other), the pre-commit file; whether ~/.config/gamm exists
\* when neither store file does (cfgDir) and whether it holds a file
\* besides the two stores (cfgOther); the edits made by hand so far
HookFile(content, mode) == [exists |-> TRUE, content |-> content, mode |-> mode]
NoHookFile == [exists |-> FALSE, content |-> <<>>, mode |-> ""]

NoHook ==
    [dir |-> FALSE, other |-> FALSE, file |-> NoHookFile,
     cfgDir |-> FALSE, cfgOther |-> FALSE, edits |-> 0]

\* what the last init, cleanup or repo_delete found and how it exited
CliIdle ==
    [cmd |-> "", exit |-> 0, target |-> None,
     before |-> [hook |-> NoHook, cfg |-> NoFile, repos |-> NoFile]]

\* the stores of a direct-call session: a profile store, a repository
\* store, the calls made so far, what the last call returned, and the
\* stores last serialized with what deserializing them gave
MemIdle ==
    [configs |-> NewStore, repos |-> NewStore, calls |-> <<>>, returned |-> None,
     saved |-> None, loaded |-> None]

Quiescent == \A q \in Procs : pc[q] \in {"idle", "done"}

\* main.rs: Ok(()) exits 0; Err(_) prints the error and exits 1; a call of
\* std::process::exit(1) inside the subcommand exits 1
ExitStatus(result) == IF result = "Ok" THEN 0 ELSE 1

AfterApplyMutant(err) == IF err THEN "Err" ELSE "Ok"

\* how pre_commit ends once apply_git_config has returned
AfterApply(err) == IF err THEN "Err" ELSE "exit(1)"

\* the process ends
Finish(p, h, result) ==
    /\ pc' = [pc EXCEPT ![p] = "done"]
    /\ hist' = [hist EXCEPT ![p] = [h EXCEPT !.result = result,
                                             !.exit = ExitStatus(result)]]

DanglingResultMutant == "Err"

\* line 349: a repository whose profile is missing is tolerated
DanglingResult == "Ok"

\* lines 337-351 and 196-208: load both stores, look the url up, branch
PreCommitStart(p, url) ==
    /\ pc[p] \in {"idle", "done"}
    /\ LET rs == Load(repoFile)
           cs == Load(cfgFile)
           owner == lookup_owner_by_url(rs, url)
           l == [LocIdle EXCEPT !.url = url, !.repo_store = rs, !.config_store = cs]
           h == [HistIdle EXCEPT
                   !.snap = World,
                   !.retry = /\ pc[p] = "done"
                             /\ loc[p].url = url
                             /\ IsSome(hist[p].applied)
                             /\ hist[p].toolsOk /\ hist[p].ioOk]
       IN  IF LoadFails(repoFile) \/ LoadFails(cfgFile)
           THEN /\ loc' = [loc EXCEPT ![p] = [LocIdle EXCEPT !.url = url]]
                /\ Finish(p, h, "Err")
           ELSE IF IsSome(owner)
           THEN IF IsSome(Get(cs, Unwrap(owner)))
                THEN /\ loc' = [loc EXCEPT ![p] = [l EXCEPT !.owner = Unwrap(owner)]]
                     /\ hist' = [hist EXCEPT ![p] = [h EXCEPT !.branch = "verified"]]
                     /\ pc' = [pc EXCEPT ![p] = "verify"]
                ELSE /\ loc' = [loc EXCEPT ![p] = [l EXCEPT !.owner = Unwrap(owner)]]
                     /\ Finish(p, [h EXCEPT !.branch = "dangling", !.warned = TRUE],
                               DanglingResult)
           ELSE \E order \in Orders(DOMAIN cs) :
                     /\ loc' = [loc EXCEPT ![p] = [l EXCEPT !.profiles = order]]
                     /\ hist' = [hist EXCEPT ![p] = [h EXCEPT !.branch = "unknown"]]
                     /\ pc' = [pc EXCEPT ![p] =
                                  IF order = <<>> THEN "first_profile" ELSE "confirm"]
    /\ del' = DelIdle
    /\ cli' = CliIdle
    /\ UNCHANGED <<cfgFile, repoFile, git, ap, faults, hook, mem>>

\* lines 353-365: read the global identity and compare it with the profile
Verify(p) ==
    /\ pc[p] = "verify"
    /\ \E email_spawned, name_spawned \in BOOLEAN :
         LET failed == Cardinality({b \in {<<1, email_spawned>>, <<2, name_spawned>>} :
                                       ~b[2]})
             config == loc[p].config_store[loc[p].owner]
             current_email == get_current_git_email(git, email_spawned)
             current_name == get_current_git_name(git, name_spawned)
             email_matches == Matches(current_email, config.user.email)
             name_matches == Matches(current_name, config.user.name)
             h == [hist[p] EXCEPT !.read = TRUE, !.cur_name = current_name,
                                  !.cur_email = current_email]
         IN  /\ faults + failed <= MaxFaults
             /\ faults' = faults + failed
             /\ IF NeedsApply(email_matches, name_matches)
                THEN /\ pc' = [pc EXCEPT ![p] = "apply"]
                     /\ hist' = [hist EXCEPT ![p] = h]
                ELSE Finish(p, h, "Ok")
    /\ UNCHANGED <<cfgFile, repoFile, git, loc, del, ap, hook, cli, mem>>

\* lines 396-402: apply the owner's profile, then exit(1)
ApplyVerified(p) ==
    /\ pc[p] = "apply"
    /\ LET config == loc[p].config_store[loc[p].owner] IN
       \E oc \in OutcomeVectors(Len(ApplyCommands(config)), MaxFaults - faults) :
         LET r == apply_git_config(config, git, oc) IN
         /\ git' = r.git
         /\ faults' = faults + Failures(oc)
         /\ Finish(p, [hist[p] EXCEPT !.applied = Some(config),
                                      !.toolsOk = @ /\ AllOk(oc)],
                       AfterApply(r.err))
    /\ UNCHANGED <<cfgFile, repoFile, loc, del, ap, hook, cli, mem>>

\* lines 198-208 and 267-271: create a profile, as the store's first entry
\* (pc "first_profile") or as the owner chosen for the repository
\* (pc "new_profile")
CreateProfile(p, in) ==
    LET r == add_config_interactive(loc[p].config_store, cfgFile, git, in)
        h == [hist[p] EXCEPT !.toolsOk = @ /\ r.toolsOk, !.ioOk = @ /\ r.ioOk,
                             !.created = @ \cup {in.profile_name}]
    IN  /\ cfgFile' = r.file
        /\ git' = r.git
        /\ faults' = faults + AddConfigFaults(in)
        /\ IF r.err
           THEN /\ Finish(p, h, "Err")
                /\ loc' = [loc EXCEPT ![p].config_store = r.config_store]
           ELSE /\ hist' = [hist EXCEPT ![p] = h]
                /\ IF pc[p] = "first_profile"
                   THEN /\ pc' = [pc EXCEPT ![p] = "confirm"]
                        /\ loc' = [loc EXCEPT ![p].config_store = r.config_store,
                                              ![p].profiles = Append(@, in.profile_name)]
                   ELSE /\ pc' = [pc EXCEPT ![p] = "load_repo"]
                        /\ loc' = [loc EXCEPT ![p].config_store = r.config_store,
                                              ![p].owner = in.profile_name]
        /\ UNCHANGED <<repoFile, del, ap, hook, cli, mem>>

FirstProfile(p) ==
    /\ pc[p] = "first_profile"
    /\ \E in \in AddConfigInputs(MaxFaults - faults) :
         /\ AddConfigFaults(in) <= MaxFaults - faults
         /\ CreateProfile(p, in)

NewProfile(p) ==
    /\ pc[p] = "new_profile"
    /\ \E in \in AddConfigInputs(MaxFaults - faults) :
         /\ AddConfigFaults(in) <= MaxFaults - faults
         /\ CreateProfile(p, in)

DeclinedMutant(add_repo) == FALSE

\* line 224: if !add_repo
Declined(add_repo) == ~add_repo

\* lines 218-274: the three prompts of add_repo_interactive
ConfirmAndChoose(p) ==
    /\ pc[p] = "confirm"
    /\ \E add_repo \in BOOLEAN :
         LET h == [hist[p] EXCEPT !.agreed = Some(add_repo)] IN
         IF Declined(add_repo)
         THEN /\ Finish(p, h, "Ok")
              /\ loc' = loc
         ELSE \E repo_name \in RepoNames(loc[p].url),
                 selection \in 0..Len(loc[p].profiles) :
                /\ hist' = [hist EXCEPT ![p] = h]
                /\ IF selection = Len(loc[p].profiles)
                   THEN /\ pc' = [pc EXCEPT ![p] = "new_profile"]
                        /\ loc' = [loc EXCEPT ![p].repo_name = repo_name]
                   ELSE /\ pc' = [pc EXCEPT ![p] = "load_repo"]
                        /\ loc' = [loc EXCEPT ![p].repo_name = repo_name,
                                              ![p].owner = loc[p].profiles[selection + 1]]
    /\ UNCHANGED <<cfgFile, repoFile, git, del, ap, faults, hook, cli, mem>>

\* line 277: the repository store is loaded afresh
LoadRepoStore(p) ==
    /\ pc[p] = "load_repo"
    /\ IF LoadFails(repoFile)
       THEN /\ Finish(p, hist[p], "Err")
            /\ loc' = loc
       ELSE /\ loc' = [loc EXCEPT ![p].fresh = Load(repoFile)]
            /\ pc' = [pc EXCEPT ![p] = "save_repo"]
            /\ hist' = hist
    /\ UNCHANGED <<cfgFile, repoFile, git, del, ap, faults, hook, cli, mem>>

NewEntryMutant(l) == Repo(l.repo_name, TrimEndGit(l.url), l.owner)

\* the entry add_repo_interactive registers
NewEntry(l) == Repo(l.repo_name, l.url, l.owner)

SavedReposMutant(l, file) == RepoAdd(Load(file), NewEntry(l))

\* lines 277-283: the store written is the one loaded at line 277 with the
\* entry added, whatever the file holds by now
SavedRepos(l, file) == RepoAdd(l.fresh, NewEntry(l))

\* lines 278-283: add the entry and overwrite the file
SaveRepoStore(p) ==
    /\ pc[p] = "save_repo"
    /\ \E saveOk \in BOOLEAN :
         /\ IF saveOk
            THEN /\ repoFile' = Save(SavedRepos(loc[p], repoFile))
                 /\ pc' = [pc EXCEPT ![p] = "apply_new"]
                 /\ hist' = hist
            ELSE /\ repoFile' = repoFile
                 /\ Finish(p, [hist[p] EXCEPT !.ioOk = FALSE], "Err")
         /\ faults' = IF saveOk THEN faults ELSE faults + 1
         /\ faults' <= MaxFaults
    /\ UNCHANGED <<cfgFile, git, loc, del, ap, hook, cli, mem>>

\* lines 405-415: apply the chosen profile if the in-memory store has it,
\* then exit(1)
ApplyProvisioned(p) ==
    /\ pc[p] = "apply_new"
    /\ LET found == Get(loc[p].config_store, loc[p].owner) IN
       IF IsSome(found)
       THEN \E oc \in OutcomeVectors(Len(ApplyCommands(Unwrap(found))),
                                      MaxFaults - faults) :
              LET r == apply_git_config(Unwrap(found), git, oc) IN
              /\ git' = r.git
              /\ faults' = faults + Failures(oc)
              /\ Finish(p, [hist[p] EXCEPT !.applied = found,
                                           !.toolsOk = @ /\ AllOk(oc)],
                        AfterApply(r.err))
       ELSE /\ git' = git
            /\ faults' = faults
            /\ Finish(p, hist[p], "exit(1)")
    /\ UNCHANGED <<cfgFile, repoFile, loc, del, ap, hook, cli, mem>>

-----------------------------------------------------------------------------
(* command.rs: profile_delete                                              *)

\* lines 548 and 581-587: the name given on the command line, or no name
\* and the profile then selected from the list (of an empty store, nothing)
DeleteChoices(config_store) ==
    {[name |-> Some(n), pick |-> n] : n \in ProfileNames}
    \cup (IF DOMAIN config_store = {}
          THEN {[name |-> None, pick |-> ""]}
          ELSE {[name |-> None, pick |-> n] : n \in DOMAIN config_store})

CascadeMutant(repos, profile_name) == repos

\* lines 593-604: drop every repository entry the profile owns
Cascade(repos, profile_name) ==
    RemoveAll(repos, {r.url : r \in find_by_owner(repos, profile_name)})

\* profile_delete on the two files; `fails` names the save that fails, if any
profile_delete(cfile, rfile, name, pick, fails) ==
    LET config_store == Load(cfile)
        repo_store == Load(rfile)
        to_delete == IF IsSome(name)
                     THEN IF Unwrap(name) \in DOMAIN config_store THEN name ELSE None
                     ELSE Some(pick)
    IN  IF LoadFails(cfile) \/ LoadFails(rfile)
        THEN [cfg |-> cfile, repos |-> rfile, result |-> "Err", target |-> None]
        ELSE IF DOMAIN config_store = {}
        THEN [cfg |-> cfile, repos |-> rfile, result |-> "Ok", target |-> None]
        ELSE IF ~IsSome(to_delete)
        THEN [cfg |-> cfile, repos |-> rfile, result |-> "Ok", target |-> None]
        ELSE LET profile_name == Unwrap(to_delete)
                 repos2 == Cascade(repo_store, profile_name)
                 removed == Get(config_store, profile_name)
                 configs2 == Without(config_store, profile_name)
             IN  IF ~IsSome(removed)
                 THEN [cfg |-> cfile, repos |-> rfile, result |-> "Ok",
                       target |-> to_delete]
                 ELSE IF fails = "config"
                 THEN [cfg |-> cfile, repos |-> rfile, result |-> "Err",
                       target |-> to_delete]
                 ELSE IF fails = "repos"
                 THEN [cfg |-> Save(configs2), repos |-> rfile, result |-> "Err",
                       target |-> to_delete]
                 ELSE [cfg |-> Save(configs2), repos |-> Save(repos2), result |-> "Ok",
                       target |-> to_delete]

\* a finished process is gone once the next command starts
Released(f, idle) == [q \in Procs |-> IF pc[q] = "done" THEN idle ELSE f[q]]

\* what a command finds: the hook file system and the two store files
Before == [hook |-> hook, cfg |-> cfgFile, repos |-> repoFile]

ProfileDelete ==
    \E choice \in DeleteChoices(Load(cfgFile)),
       fails \in {"none", "config", "repos"} :
        /\ faults' = IF fails = "none" THEN faults ELSE faults + 1
        /\ faults' <= MaxFaults
        /\ LET r == profile_delete(cfgFile, repoFile, choice.name, choice.pick, fails) IN
           /\ cfgFile' = r.cfg
           /\ repoFile' = r.repos
           /\ del' = [ran |-> TRUE, target |-> r.target, exit |-> ExitStatus(r.result),
                      ioOk |-> (r.result = "Ok"), cfg |-> cfgFile, repos |-> repoFile]
        /\ pc' = Released(pc, "idle")
        /\ loc' = Released(loc, LocIdle)
        /\ hist' = Released(hist, HistIdle)
        /\ cli' = CliIdle
        /\ UNCHANGED <<git, ap, hook, mem>>

-----------------------------------------------------------------------------
(* command.rs: repo_delete                                                 *)

\* lines 466-470: the entries a name given on the command line stands for,
\* by repository name or by url
FoundByName(repos, name) ==
    {u \in DOMAIN repos : repos[u].repo_name = name \/ u = name}

\* lines 466-491: a name and the entry `find` meets first for it (none when
\* no entry has it), or no name and the entry selected from the list
RepoDeleteChoices(repos) ==
    LET names == Urls \cup {DefaultRepoName(u) : u \in Urls} IN
    UNION {IF FoundByName(repos, n) = {}
           THEN {[name |-> Some(n), pick |-> None]}
           ELSE {[name |-> Some(n), pick |-> Some(u)] : u \in FoundByName(repos, n)} :
           n \in names}
    \cup {[name |-> None, pick |-> Some(u)] : u \in DOMAIN repos}

\* repo_delete on the repository file; saveOk is the fate of the save
repo_delete(rfile, pick, saveOk) ==
    LET repo_store == Load(rfile) IN
    IF LoadFails(rfile)
    THEN [repos |-> rfile, result |-> "Err", target |-> None]
    ELSE IF DOMAIN repo_store = {}
    THEN [repos |-> rfile, result |-> "Ok", target |-> None]
    ELSE IF ~IsSome(pick)
    THEN [repos |-> rfile, result |-> "Ok", target |-> None]
    ELSE IF ~IsSome(Get(repo_store, Unwrap(pick)))
    THEN [repos |-> rfile, result |-> "Ok", target |-> None]
    ELSE IF ~saveOk
    THEN [repos |-> rfile, result |-> "Err", target |-> pick]
    ELSE [repos |-> Save(remove_by_url(repo_store, Unwrap(pick))), result |-> "Ok",
          target |-> pick]

RepoDelete ==
    \E choice \in RepoDeleteChoices(Load(repoFile)), saveOk \in BOOLEAN :
        /\ faults' = IF saveOk THEN faults ELSE faults + 1
        /\ faults' <= MaxFaults
        /\ LET r == repo_delete(repoFile, choice.pick, saveOk) IN
           /\ repoFile' = r.repos
           /\ cli' = [CliIdle EXCEPT !.cmd = "repo_delete", !.before = Before,
                                     !.exit = ExitStatus(r.result), !.target = r.target]
        /\ del' = DelIdle
        /\ pc' = Released(pc, "idle")
        /\ loc' = Released(loc, LocIdle)
        /\ hist' = Released(hist, HistIdle)
        /\ UNCHANGED <<cfgFile, git, ap, hook, mem>>

-----------------------------------------------------------------------------
(* command.rs: the hook file, init and cleanup                             *)
(*                                                                         *)
(* The content of the hook file is a sequence of tokens: "\n" is the line  *)
(* break, " " a blank, every other token a piece of text without either.   *)

GAM_MARKER_START == "# >>> gamm"
GAM_MARKER_END == "# <<< gamm"

GAM_HOOK_SECTION ==
    <<GAM_MARKER_START, "\n",
      "\n",
      "REMOTE_URL=$(git remote get-url origin 2>/dev/null || true)", "\n",
      "[ -z \"$REMOTE_URL\" ] && exit 0", "\n",
      "\n",
      "echo \"gamm: checking ...\"", "\n",
      "gamm pre-commit --repo \"$REMOTE_URL\"", "\n",
      GAM_MARKER_END>>

\* the position of the first line break of s, or 0
FirstBreak(s) ==
    IF \E i \in DOMAIN s : s[i] = "\n"
    THEN CHOOSE i \in DOMAIN s : s[i] = "\n" /\ \A j \in 1..(i - 1) : s[j] /= "\n"
    ELSE 0

\* str::lines : the lines without their line breaks; a final line break
\* does not open another line
RECURSIVE Lines(_)
Lines(s) ==
    IF s = <<>> THEN <<>>
    ELSE LET n == FirstBreak(s) IN
         IF n = 0 THEN <<s>>
         ELSE <<SubSeq(s, 1, n - 1)>> \o Lines(SubSeq(s, n + 1, Len(s)))

\* the text tokens that have `text` inside them
TokensContaining(text) ==
    IF text = GAM_MARKER_START THEN {GAM_MARKER_START, "echo '# >>> gamm'"}
    ELSE {text}

\* str::contains
Contains(s, text) == \E i \in DOMAIN s : s[i] \in TokensContaining(text)

\* the text tokens that begin with `prefix`
TokensStartingWith(prefix) ==
    IF prefix = "#!" THEN {"#!/bin/sh"}
    ELSE IF prefix = "set -e" THEN {"set -e", "set -euo pipefail"}
    ELSE {prefix}

\* str::starts_with on a line
StartsWith(line, prefix) == line /= <<>> /\ line[1] \in TokensStartingWith(prefix)

\* create_dir_all in save: the directory exists whenever a store file does
ConfigDirExists == hook.cfgDir \/ hook.cfgOther \/ cfgFile.exists \/ repoFile.exists

AlreadyInstalledMutant(file) == FALSE

\* init, lines 302-309: the start marker is somewhere in the existing file
AlreadyInstalled(file) == file.exists /\ Contains(file.content, GAM_MARKER_START)

\* init, lines 301-316: the content init writes
NewHookContent(file) ==
    IF file.exists
    THEN TrimEnd(file.content) \o <<"\n", "\n">> \o GAM_HOOK_SECTION \o <<"\n">>
    ELSE <<"#!/bin/sh", "\n", "set -e", "\n", "\n">> \o GAM_HOOK_SECTION \o <<"\n">>

\* init: the hook file system it leaves
init(h) ==
    IF AlreadyInstalled(h.file)
    THEN [h EXCEPT !.dir = TRUE]
    ELSE [h EXCEPT !.dir = TRUE, !.file = HookFile(NewHookContent(h.file), "755")]

RECURSIVE StripSectionMutant(_, _)
StripSectionMutant(lines, in_gam_section) ==
    IF lines = <<>> THEN <<>>
    ELSE LET line == Head(lines) IN
         IF Trim(line) = <<GAM_MARKER_START>>
         THEN StripSectionMutant(Tail(lines), TRUE)
         ELSE IF Trim(line) = <<GAM_MARKER_END>>
         THEN line \o <<"\n">> \o StripSectionMutant(Tail(lines), FALSE)
         ELSE IF ~in_gam_section
         THEN line \o <<"\n">> \o StripSectionMutant(Tail(lines), in_gam_section)
         ELSE StripSectionMutant(Tail(lines), in_gam_section)

\* cleanup, lines 646-662: the lines outside the markers, each with a line
\* break after it
RECURSIVE StripSection(_, _)
StripSection(lines, in_gam_section) ==
    IF lines = <<>> THEN <<>>
    ELSE LET line == Head(lines) IN
         IF Trim(line) = <<GAM_MARKER_START>>
         THEN StripSection(Tail(lines), TRUE)
         ELSE IF Trim(line) = <<GAM_MARKER_END>>
         THEN StripSection(Tail(lines), FALSE)
         ELSE IF ~in_gam_section
         THEN line \o <<"\n">> \o StripSection(Tail(lines), in_gam_section)
         ELSE StripSection(Tail(lines), in_gam_section)

\* cleanup, lines 668-670: nothing but blank lines, shebang and `set -e`
OnlyBoilerplate(content) ==
    \A i \in DOMAIN Lines(content) :
        LET l == Lines(content)[i] IN
        Trim(l) = <<>> \/ StartsWith(l, "#!") \/ StartsWith(l, "set -e")

RemoveStoresMutant(cfile, rfile) == [cfg |-> NoFile, repos |-> rfile]

\* cleanup, lines 687-700: both store files are removed
RemoveStores(cfile, rfile) == [cfg |-> NoFile, repos |-> NoFile]

\* cleanup: the hook file system and the two store files it leaves
cleanup(h, cfile, rfile) ==
    IF ~h.file.exists
    THEN [hook |-> h, cfg |-> cfile, repos |-> rfile]
    ELSE IF ~Contains(h.file.content, GAM_MARKER_START)
    THEN [hook |-> h, cfg |-> cfile, repos |-> rfile]
    ELSE LET new_content == TrimEnd(StripSection(Lines(h.file.content), FALSE))
             h2 == IF OnlyBoilerplate(new_content)
                   THEN [h EXCEPT !.file = NoHookFile, !.dir = h.other]
                   ELSE [h EXCEPT !.file.content = new_content \o <<"\n">>]
             stores == RemoveStores(cfile, rfile)
         IN  [hook |-> [h2 EXCEPT !.cfgDir = FALSE],
              cfg |-> stores.cfg, repos |-> stores.repos]

HookInit ==
    /\ hook' = init(hook)
    /\ cli' = [CliIdle EXCEPT !.cmd = "init", !.before = Before]
    /\ del' = DelIdle
    /\ pc' = Released(pc, "idle")
    /\ loc' = Released(loc, LocIdle)
    /\ hist' = Released(hist, HistIdle)
    /\ UNCHANGED <<cfgFile, repoFile, git, ap, faults, mem>>

Cleanup ==
    /\ LET r == cleanup(hook, cfgFile, repoFile) IN
       /\ hook' = r.hook
       /\ cfgFile' = r.cfg
       /\ repoFile' = r.repos
    /\ cli' = [CliIdle EXCEPT !.cmd = "cleanup", !.before = Before]
    /\ del' = DelIdle
    /\ pc' = Released(pc, "idle")
    /\ loc' = Released(loc, LocIdle)
    /\ hist' = Released(hist, HistIdle)
    /\ UNCHANGED <<git, ap, faults, mem>>

\* how many lines are added to the hook file by hand
MaxEdits == 1

\* the lines a user adds to the hook file
UserLines == {<<"echo hi">>, <<>>}

\* the user appends a line to the hook file with an editor
UserAppend ==
    /\ hook.file.exists
    /\ hook.edits < MaxEdits
    /\ \E line \in UserLines :
         hook' = [hook EXCEPT !.file.content = @ \o line \o <<"\n">>,
                              !.edits = @ + 1]
    /\ cli' = CliIdle
    /\ UNCHANGED <<cfgFile, repoFile, git, pc, loc, hist, del, ap, faults, mem>>

-----------------------------------------------------------------------------
(* A sequential session: one command at a time                             *)

\* nothing set yet, or an identity set by hand
PresetGits ==
    {GitUnset} \cup
    {[GitUnset EXCEPT ![KeyUserName] = Some(n), ![KeyUserEmail] = Some(e)] :
        n \in PresetNames, e \in PresetEmails}

Init ==
    /\ cfgFile \in {NoFile, Save("work" :> sample_config)}
    /\ repoFile = NoFile
    /\ git \in PresetGits
    /\ pc = [q \in Procs |-> "idle"]
    /\ loc = [q \in Procs |-> LocIdle]
    /\ hist = [q \in Procs |-> HistIdle]
    /\ del = DelIdle
    /\ ap = ApIdle
    /\ faults = 0
    /\ hook = NoHook
    /\ cli = CliIdle
    /\ mem = MemIdle

SeqPreCommitStart == \E u \in Urls : PreCommitStart(Main, u)
SeqVerify == Verify(Main)
SeqApplyVerified == ApplyVerified(Main)
SeqFirstProfile == FirstProfile(Main)
SeqConfirmAndChoose == ConfirmAndChoose(Main)
SeqNewProfile == NewProfile(Main)
SeqLoadRepoStore == LoadRepoStore(Main)
SeqSaveRepoStore == SaveRepoStore(Main)
SeqApplyProvisioned == ApplyProvisioned(Main)
SeqProfileDelete == Quiescent /\ ProfileDelete

Next ==
    \/ SeqPreCommitStart
    \/ SeqVerify
    \/ SeqApplyVerified
    \/ SeqFirstProfile
    \/ SeqConfirmAndChoose
    \/ SeqNewProfile
    \/ SeqLoadRepoStore
    \/ SeqSaveRepoStore
    \/ SeqApplyProvisioned
    \/ SeqProfileDelete

Spec == Init /\ [][Next]_vars

-----------------------------------------------------------------------------
(* A sequential session of every subcommand that writes                    *)

NextCli ==
    \/ Next
    \/ Quiescent /\ RepoDelete
    \/ Quiescent /\ HookInit
    \/ Quiescent /\ Cleanup

\* store files that may have been damaged outside gamm; no invocation and
\* no write fails, so that a malformed file is all that goes wrong
InitDamaged ==
    /\ cfgFile \in {NoFile, Save("work" :> sample_config), Malformed}
    /\ repoFile \in {NoFile, Malformed}
    /\ git \in PresetGits
    /\ pc = [q \in Procs |-> "idle"]
    /\ loc = [q \in Procs |-> LocIdle]
    /\ hist = [q \in Procs |-> HistIdle]
    /\ del = DelIdle
    /\ ap = ApIdle
    /\ faults = MaxFaults
    /\ hook = NoHook
    /\ cli = CliIdle
    /\ mem = MemIdle

SpecDamaged == InitDamaged /\ [][NextCli]_vars

\* empty stores, and a session in which no invocation and no write fails
InitCli ==
    /\ cfgFile = NoFile
    /\ repoFile = NoFile
    /\ git \in PresetGits
    /\ pc = [q \in Procs |-> "idle"]
    /\ loc = [q \in Procs |-> LocIdle]
    /\ hist = [q \in Procs |-> HistIdle]
    /\ del = DelIdle
    /\ ap = ApIdle
    /\ faults = MaxFaults
    /\ hook = NoHook
    /\ cli = CliIdle
    /\ mem = MemIdle

SpecCli == InitCli /\ [][NextCli]_vars

-----------------------------------------------------------------------------
(* Two commits at once: two pre_commit processes, their steps interleaved, *)
(* each run once, with no invocation and no write failing                  *)

InitConcurrent ==
    /\ cfgFile \in {NoFile, Save("work" :> sample_config)}
    /\ repoFile = NoFile
    /\ git = GitUnset
    /\ pc = [q \in Procs |-> "idle"]
    /\ loc = [q \in Procs |-> LocIdle]
    /\ hist = [q \in Procs |-> HistIdle]
    /\ del = DelIdle
    /\ ap = ApIdle
    /\ faults = MaxFaults
    /\ hook = NoHook
    /\ cli = CliIdle
    /\ mem = MemIdle

NextConcurrent ==
    \E p \in Procs :
        \/ pc[p] = "idle" /\ \E u \in Urls : PreCommitStart(p, u)
        \/ Verify(p)
        \/ ApplyVerified(p)
        \/ FirstProfile(p)
        \/ ConfirmAndChoose(p)
        \/ NewProfile(p)
        \/ LoadRepoStore(p)
        \/ SaveRepoStore(p)
        \/ ApplyProvisioned(p)

SpecConcurrent == InitConcurrent /\ [][NextConcurrent]_vars

-----------------------------------------------------------------------------
(* A commit and a deletion at once: one pre_commit process, and one        *)
(* profile_delete run while that process is between two of its steps, with *)
(* no invocation and no write failing                                      *)

InitStale ==
    /\ cfgFile \in {NoFile, Save("work" :> sample_config)}
    /\ repoFile \in {NoFile} \cup
                    {Save(RepoAdd(NewStore, Repo(DefaultRepoName(u), u, n))) :
                        u \in Urls, n \in DOMAIN Load(cfgFile)}
    /\ git = GitUnset
    /\ pc = [q \in Procs |-> "idle"]
    /\ loc = [q \in Procs |-> LocIdle]
    /\ hist = [q \in Procs |-> HistIdle]
    /\ del = DelIdle
    /\ ap = ApIdle
    /\ faults = MaxFaults
    /\ hook = NoHook
    /\ cli = CliIdle
    /\ mem = MemIdle

NextStale ==
    \/ pc[Main] = "idle" /\ ~del.ran /\ \E u \in Urls : PreCommitStart(Main, u)
    \/ Verify(Main)
    \/ ApplyVerified(Main)
    \/ FirstProfile(Main)
    \/ ConfirmAndChoose(Main)
    \/ NewProfile(Main)
    \/ LoadRepoStore(Main)
    \/ SaveRepoStore(Main)
    \/ ApplyProvisioned(Main)
    \/ pc[Main] \notin {"idle", "done"} /\ ~del.ran /\ ProfileDelete

SpecStale == InitStale /\ [][NextStale]_vars

-----------------------------------------------------------------------------
(* apply_git_config on its own: any profile, any prior configuration       *)

Rules == {UrlConfig(p, i) : p \in Patterns, i \in InsteadOfs}

RewriteLists == UNION {[1..k -> Rules] : k \in 0..MaxRewrites}

ApplierConfigs ==
    {GitConfig(UserConfig(n, e, None), urls, CommitConfig(b)) :
        n \in TypedNames, e \in TypedEmails, urls \in RewriteLists, b \in BOOLEAN}

\* prior configurations: each key unset or holding a value no profile holds
ApplierGits ==
    {[k \in GitKeys |-> IF k \in set THEN Some(<<"old">>) ELSE None] :
        set \in SUBSET GitKeys}

InitApplier ==
    /\ cfgFile = NoFile
    /\ repoFile = NoFile
    /\ git \in ApplierGits
    /\ pc = [q \in Procs |-> "idle"]
    /\ loc = [q \in Procs |-> LocIdle]
    /\ hist = [q \in Procs |-> HistIdle]
    /\ del = DelIdle
    /\ ap \in {[ApIdle EXCEPT !.config = c] : c \in ApplierConfigs}
    /\ faults = 0
    /\ hook = NoHook
    /\ cli = CliIdle
    /\ mem = MemIdle

ApplierCall ==
    /\ ~ap.called
    /\ \E oc \in OutcomeVectors(Len(ApplyCommands(ap.config)), MaxFaults) :
         LET r == apply_git_config(ap.config, git, oc) IN
         /\ git' = r.git
         /\ ap' = [ap EXCEPT !.called = TRUE, !.before = git, !.oc = oc,
                             !.err = r.err, !.ran = r.ran]
    /\ UNCHANGED <<cfgFile, repoFile, pc, loc, hist, del, faults, hook, cli, mem>>

NextApplier == ApplierCall

SpecApplier == InitApplier /\ [][NextApplier]_vars

-----------------------------------------------------------------------------
(* init and cleanup on their own: any hook file without gamm markers, any  *)
(* store files                                                             *)

\* hook files written by hand, none with a gamm marker
HandWrittenHooks ==
    {<<>>,
     <<"echo hi">>,
     <<"#!/bin/sh", "\n", "echo hi", "\n">>,
     <<"#!/bin/sh", "\n", "set -euo pipefail", "\n", "\n", "\n", "\n">>}

InitialHooks ==
    {NoHook, [NoHook EXCEPT !.dir = TRUE], [NoHook EXCEPT !.dir = TRUE, !.other = TRUE]}
    \cup {[NoHook EXCEPT !.dir = TRUE, !.other = o, !.file = HookFile(c, m)] :
            o \in BOOLEAN, c \in HandWrittenHooks, m \in {"644", "755"}}

InitHook ==
    /\ cfgFile \in {NoFile, Save("work" :> sample_config)}
    /\ repoFile \in {NoFile,
                     Save(RepoAdd(NewStore, Repo(<<"c">>, <<"https://example.com", "/", "c">>,
                                                 "work")))}
    /\ git = GitUnset
    /\ pc = [q \in Procs |-> "idle"]
    /\ loc = [q \in Procs |-> LocIdle]
    /\ hist = [q \in Procs |-> HistIdle]
    /\ del = DelIdle
    /\ ap = ApIdle
    /\ faults = 0
    /\ hook \in {[h EXCEPT !.cfgDir = d, !.cfgOther = o] :
                    h \in InitialHooks, d \in BOOLEAN, o \in BOOLEAN}
    /\ cli = CliIdle
    /\ mem = MemIdle

NextHook ==
    \/ HookInit
    \/ Cleanup
    \/ UserAppend

SpecHook == InitHook /\ [][NextHook]_vars

-----------------------------------------------------------------------------
(* The two stores on their own: any sequence of calls of their methods     *)

\* how many calls are made on the stores
MaxCalls == 3

\* the profiles added: the unit tests' sample, GitConfig::default(), and one
\* with an empty email, an empty signoff and two rewrite rules
StoreConfigs ==
    {sample_config,
     GitConfig(UserConfig(<<>>, <<>>, None), <<>>, CommitConfig(FALSE)),
     GitConfig(UserConfig(<<"Other User">>, <<>>, Some(<<>>)),
               <<UrlConfig("git@github.com:", <<"https://github.com/">>),
                 UrlConfig("git@github.com:", <<"https://gh/">>)>>,
               CommitConfig(FALSE))}

Call(op, key, val) == [op |-> op, key |-> key, val |-> val]

\* the stores after a call, with the call recorded and its return value
Called(configs, repos, call, returned) ==
    [configs |-> configs, repos |-> repos, calls |-> Append(mem.calls, call),
     returned |-> returned, saved |-> None, loaded |-> None]

StoreAdd ==
    /\ Len(mem.calls) < MaxCalls
    /\ \E name \in ProfileNames, config \in StoreConfigs :
         mem' = Called(Insert(mem.configs, name, config), mem.repos,
                       Call("add", name, config), None)
    /\ UNCHANGED <<cfgFile, repoFile, git, pc, loc, hist, del, ap, faults, hook, cli>>

StoreRemove ==
    /\ Len(mem.calls) < MaxCalls
    /\ \E name \in ProfileNames :
         mem' = Called(Without(mem.configs, name), mem.repos,
                       Call("remove", name, ""), Get(mem.configs, name))
    /\ UNCHANGED <<cfgFile, repoFile, git, pc, loc, hist, del, ap, faults, hook, cli>>

RepoStoreAdd ==
    /\ Len(mem.calls) < MaxCalls
    /\ \E url \in Urls, commit_by \in ProfileNames :
         mem' = Called(mem.configs,
                       RepoAdd(mem.repos, Repo(DefaultRepoName(url), url, commit_by)),
                       Call("repo_add", url, commit_by), None)
    /\ UNCHANGED <<cfgFile, repoFile, git, pc, loc, hist, del, ap, faults, hook, cli>>

RepoStoreAddRepo ==
    /\ Len(mem.calls) < MaxCalls
    /\ \E url \in Urls, commit_by \in ProfileNames :
         mem' = Called(mem.configs,
                       RepoAddRepo(mem.repos, DefaultRepoName(url), url, commit_by),
                       Call("add_repo", url, commit_by), None)
    /\ UNCHANGED <<cfgFile, repoFile, git, pc, loc, hist, del, ap, faults, hook, cli>>

RepoStoreRemove ==
    /\ Len(mem.calls) < MaxCalls
    /\ \E url \in Urls :
         mem' = Called(mem.configs, remove_by_url(mem.repos, url),
                       Call("remove_by_url", url, ""), Get(mem.repos, url))
    /\ UNCHANGED <<cfgFile, repoFile, git, pc, loc, hist, del, ap, faults, hook, cli>>

\* serialize both stores as save does, deserialize them as load does
StoreSaveLoad ==
    /\ mem.saved = None
    /\ mem' = [mem EXCEPT
                 !.saved = Some([configs |-> mem.configs, repos |-> mem.repos]),
                 !.loaded = Some([configs |-> ConfigStoreFromJson(
                                                  ConfigStoreToJson(mem.configs)),
                                  repos |-> RepoStoreFromJson(
                                                RepoStoreToJson(mem.repos))])]
    /\ UNCHANGED <<cfgFile, repoFile, git, pc, loc, hist, del, ap, faults, hook, cli>>

InitStore ==
    /\ cfgFile = NoFile
    /\ repoFile = NoFile
    /\ git = GitUnset
    /\ pc = [q \in Procs |-> "idle"]
    /\ loc = [q \in Procs |-> LocIdle]
    /\ hist = [q \in Procs |-> HistIdle]
    /\ del = DelIdle
    /\ ap = ApIdle
    /\ faults = 0
    /\ hook = NoHook
    /\ cli = CliIdle
    /\ mem = MemIdle

NextStore ==
    \/ StoreAdd
    \/ StoreRemove
    \/ RepoStoreAdd
    \/ RepoStoreAddRepo
    \/ RepoStoreRemove
    \/ StoreSaveLoad

SpecStore == InitStore /\ [][NextStore]_vars

-----------------------------------------------------------------------------
(* Properties of the reconciliation flow (specification Spec)              *)

Finished(p) == pc[p] = "done"

\* the two stores as the run found them
StartRepos(p) == Load(hist[p].snap.repos)
StartConfigs(p) == Load(hist[p].snap.cfg)

\* the url of the run was registered when the run began
Registered(p) == loc[p].url \in DOMAIN StartRepos(p)
OwnerName(p) == StartRepos(p)[loc[p].url].commit_by

\* ... and its owner profile existed
OwnerExists(p) == Registered(p) /\ OwnerName(p) \in DOMAIN StartConfigs(p)
OwnerProfile(p) == StartConfigs(p)[OwnerName(p)]

\* neither file nor the global configuration differs from when the run began
Untouched(p) == World = hist[p].snap

\* a value read from the global configuration that is unset, empty or
\* another text than expected
Differs(current, expected) == current = None \/ Unwrap(current) /= expected

UnsetOrEmpty(value) == value = None \/ value = Some(<<>>)

\* C1: a pre_commit run for a url registered to an existing profile exits
\* zero only if the user.name and user.email it read from the global
\* configuration equal the profile's, and every run that called
\* apply_git_config exits non-zero.
C1_NoCommitWithMismatch ==
    \A p \in Procs :
        Finished(p) =>
            /\ (OwnerExists(p) /\ hist[p].exit = 0) =>
                   /\ hist[p].read
                   /\ hist[p].cur_name = Some(OwnerProfile(p).user.name)
                   /\ hist[p].cur_email = Some(OwnerProfile(p).user.email)
            /\ IsSome(hist[p].applied) => hist[p].exit /= 0

\* a commit let through for a registered url right after a correcting run
C1_Witness ==
    /\ Finished(Main) /\ OwnerExists(Main)
    /\ hist[Main].exit = 0 /\ hist[Main].retry

\* C2: the run that directly follows a run for the same url which reached
\* Apply with every invocation and write succeeding finds name and email
\* matching and exits zero, whatever the profile.
C2_ConvergesInOneCommit ==
    \A p \in Procs :
        (Finished(p) /\ hist[p].retry /\ faults = 0) =>
            /\ OwnerExists(p)
            /\ hist[p].read
            /\ ~Differs(hist[p].cur_name, OwnerProfile(p).user.name)
            /\ ~Differs(hist[p].cur_email, OwnerProfile(p).user.email)
            /\ hist[p].exit = 0

C5_Provisioning ==
    \A p \in Procs :
        ( /\ Finished(p) /\ ~Registered(p)
          /\ hist[p].agreed = Some(TRUE) /\ hist[p].result /= "Err" )
        => /\ repoFile.exists
           /\ loc[p].url \in DOMAIN repoFile.data
           /\ repoFile.data[loc[p].url].url = loc[p].url
           /\ repoFile.data[loc[p].url].commit_by = loc[p].owner
           /\ cfgFile.exists
           /\ loc[p].owner \in DOMAIN cfgFile.data
           /\ (StartConfigs(p) = NewStore) =>
                  (hist[p].created /= {} /\ hist[p].created \subseteq DOMAIN cfgFile.data)
           /\ hist[p].applied = Some(cfgFile.data[loc[p].owner])
           /\ hist[p].exit /= 0

\* provisioning that began with no profile at all
C5_Witness ==
    /\ Finished(Main) /\ ~Registered(Main)
    /\ hist[Main].agreed = Some(TRUE) /\ hist[Main].result = "exit(1)"
    /\ StartConfigs(Main) = NewStore
    /\ loc[Main].url \in DOMAIN repoFile.data

\* C6 as claimed: declining leaves both files and the global configuration
\* as they were and exits zero, from every starting state.
C6_DeclineIsNoOp ==
    \A p \in Procs :
        (Finished(p) /\ hist[p].agreed = Some(FALSE) /\ faults = 0) =>
            (Untouched(p) /\ hist[p].exit = 0)

\* C6 as amended: declining exits zero and leaves the repository file as it
\* was; it leaves the profile file and the global configuration as they were
\* when the profile store was not empty; when it was empty, the one profile
\* created before the question was asked stays in the profile file.
C6_DeclineKeepsFirstProfile ==
    \A p \in Procs :
        (Finished(p) /\ hist[p].agreed = Some(FALSE)) =>
            /\ hist[p].exit = 0
            /\ repoFile = hist[p].snap.repos
            /\ (StartConfigs(p) /= NewStore) => Untouched(p)
            /\ (StartConfigs(p) = NewStore) =>
                   /\ Cardinality(hist[p].created) = 1
                   /\ cfgFile.exists
                   /\ DOMAIN cfgFile.data = hist[p].created

\* declined after the first profile had been created
C6_Witness ==
    /\ Finished(Main) /\ hist[Main].agreed = Some(FALSE)
    /\ StartConfigs(Main) = NewStore
    /\ cfgFile /= hist[Main].snap.cfg

\* C7: a run for a registered url whose owner profile is missing prints the
\* warning, leaves both files (the dangling entry included) and the global
\* configuration as they were, does not call apply_git_config, exits zero.
C7_DanglingIsNoOp ==
    \A p \in Procs :
        ( /\ Finished(p) /\ Registered(p)
          /\ OwnerName(p) \notin DOMAIN StartConfigs(p) )
        => /\ hist[p].warned
           /\ Untouched(p)
           /\ loc[p].url \in DOMAIN Load(repoFile)
           /\ hist[p].applied = None
           /\ hist[p].exit = 0

C7_Witness ==
    /\ Finished(Main) /\ Registered(Main)
    /\ OwnerName(Main) \notin DOMAIN StartConfigs(Main)
    /\ hist[Main].warned

\* C11: for a url registered to an existing profile, with no invocation
\* failing, the run is a no-op exactly when the user.name and the user.email
\* held by the global configuration are the same strings as the profile's;
\* commit.gpgsign and the url rewrites play no part.
C11_ExactStringEquality ==
    \A p \in Procs :
        (Finished(p) /\ OwnerExists(p) /\ faults = 0) =>
            ( ( /\ hist[p].snap.git[KeyUserName] = Some(OwnerProfile(p).user.name)
                /\ hist[p].snap.git[KeyUserEmail] = Some(OwnerProfile(p).user.email) )
              <=> ( /\ hist[p].result = "Ok"
                    /\ hist[p].applied = None
                    /\ Untouched(p) ) )

-----------------------------------------------------------------------------
(* Properties of apply_git_config (specification SpecApplier)              *)

\* apply_git_config returned Ok and every invocation it made exited zero
AppliedCleanly == ap.called /\ ~ap.err /\ AllOk(ap.oc)

\* the positions of the rules of `urls` that rewrite `pattern`
RulesFor(urls, pattern) == {i \in 1..Len(urls) : urls[i].pattern = pattern}

Max(S) == CHOOSE m \in S : \A n \in S : n <= m

\* C8 as claimed: after a successful application the global configuration
\* holds the profile's user.name, user.email and commit.gpgsign and, for
\* each rule, its instead_of under url.<pattern>.insteadOf; all four kinds
\* of setting are written on every application.
C8_AllSettingsWritten ==
    AppliedCleanly =>
        /\ git[KeyUserName] = Some(ap.config.user.name)
        /\ git[KeyUserEmail] = Some(ap.config.user.email)
        /\ git[KeyGpgSign] = Some(BoolText(ap.config.commit.gpgsign))
        /\ \A i \in 1..Len(ap.config.urls) :
               git[KeyInsteadOf(ap.config.urls[i].pattern)]
                   = Some(ap.config.urls[i].instead_of)
        /\ ap.ran = 3 + Len(ap.config.urls)

\* C8 as amended: after a successful application commit.gpgsign holds the
\* profile's value; user.name (user.email) holds the profile's value when
\* that value is not empty and is left as it was, not written, when it is
\* empty; each pattern with a rule holds the instead_of of the last rule for
\* it, every other pattern is left as it was.
C8_NonEmptySettingsWritten ==
    AppliedCleanly =>
        /\ git[KeyUserName] = IF ap.config.user.name /= <<>>
                              THEN Some(ap.config.user.name)
                              ELSE ap.before[KeyUserName]
        /\ git[KeyUserEmail] = IF ap.config.user.email /= <<>>
                               THEN Some(ap.config.user.email)
                               ELSE ap.before[KeyUserEmail]
        /\ git[KeyGpgSign] = Some(BoolText(ap.config.commit.gpgsign))
        /\ \A pattern \in Patterns :
               LET rules == RulesFor(ap.config.urls, pattern) IN
               git[KeyInsteadOf(pattern)] =
                   IF rules = {} THEN ap.before[KeyInsteadOf(pattern)]
                   ELSE Some(ap.config.urls[Max(rules)].instead_of)
        /\ ap.ran = (IF ap.config.user.name /= <<>> THEN 1 ELSE 0)
                    + (IF ap.config.user.email /= <<>> THEN 1 ELSE 0)
                    + 1 + Len(ap.config.urls)

\* a profile with an empty user.name and two rules for one pattern, applied
\* over a configuration that had a user.name
C8_Witness ==
    /\ AppliedCleanly
    /\ ap.config.user.name = <<>>
    /\ ap.config.user.email /= <<>>
    /\ IsSome(ap.before[KeyUserName])
    /\ Len(ap.config.urls) = 2
    /\ ap.config.urls[1] /= ap.config.urls[2]

\* C9: if an invocation made by apply_git_config fails, apply_git_config
\* returns the error at once: no later setting is written, the settings
\* written before it stay.
C9_FailFast ==
    ap.called =>
        \A i \in DOMAIN ap.oc :
            ap.oc[i] /= "ok" =>
                /\ ap.err
                /\ ap.ran = i - 1
                /\ git = RunCommands(ap.before,
                                     SubSeq(ApplyCommands(ap.config), 1, i - 1),
                                     [j \in 1..(i - 1) |-> "ok"], 1).git

-----------------------------------------------------------------------------
(* Properties of profile_delete (specification Spec)                       *)

\* profile_delete removed a profile that was in the store and returned Ok
Deleted == del.ran /\ IsSome(del.target) /\ del.exit = 0

\* C10: after profile_delete(P) succeeds for a stored profile P, the profile
\* file has no P and every other profile as before; the repository file has
\* no entry owned by P, every entry of another owner as before and no new
\* entry; the entries removed are exactly find_by_owner(P).
C10_CascadingDelete ==
    Deleted =>
        LET P == Unwrap(del.target)
            before == Load(del.repos)
            after == Load(repoFile)
        IN  /\ P \in DOMAIN Load(del.cfg)
            /\ cfgFile.exists /\ repoFile.exists
            /\ P \notin DOMAIN cfgFile.data
            /\ cfgFile.data = Without(Load(del.cfg), P)
            /\ \A u \in DOMAIN before :
                   IF before[u].commit_by = P
                   THEN lookup_owner_by_url(after, u) = None
                   ELSE u \in DOMAIN after /\ after[u] = before[u]
            /\ DOMAIN after \subseteq DOMAIN before
            /\ \A u \in DOMAIN after : after[u].commit_by /= P
            /\ {before[u] : u \in (DOMAIN before) \ (DOMAIN after)}
                   = find_by_owner(before, P)

\* a delete that removed one entry and kept the entry of another owner
C10_Witness ==
    /\ Deleted
    /\ find_by_owner(Load(del.repos), Unwrap(del.target)) /= {}
    /\ DOMAIN Load(repoFile) /= {}

-----------------------------------------------------------------------------
(* Properties of init and cleanup (specification SpecHook)                 *)

IsBlank(line) == Trim(line) = <<>>

\* the lines that are a start (end) marker
BlockStarts(content) ==
    {i \in DOMAIN Lines(content) : Trim(Lines(content)[i]) = <<GAM_MARKER_START>>}
BlockEnds(content) ==
    {i \in DOMAIN Lines(content) : Trim(Lines(content)[i]) = <<GAM_MARKER_END>>}

TheStart(content) == CHOOSE i \in BlockStarts(content) : TRUE
TheEnd(content) == CHOOSE i \in BlockEnds(content) : TRUE

\* one start marker, one end marker after it, the lines of the hook
\* section from the one through the other
ExactlyOneBlock(content) ==
    /\ Cardinality(BlockStarts(content)) = 1
    /\ Cardinality(BlockEnds(content)) = 1
    /\ TheStart(content) < TheEnd(content)
    /\ SubSeq(Lines(content), TheStart(content), TheEnd(content)) = Lines(GAM_HOOK_SECTION)

\* lines without the blank lines at their end
RECURSIVE DropTrailingBlank(_)
DropTrailingBlank(lines) ==
    IF lines = <<>> THEN <<>>
    ELSE IF IsBlank(lines[Len(lines)])
    THEN DropTrailingBlank(SubSeq(lines, 1, Len(lines) - 1))
    ELSE lines

\* the lines before line a and after line b
Outside(lines, a, b) ==
    SubSeq(lines, 1, a - 1) \o SubSeq(lines, b + 1, Len(lines))

HasMarker(file) ==
    file.exists /\ \E i \in DOMAIN file.content : file.content[i] = GAM_MARKER_START

\* C17: init on a hook file that is absent or has no gamm marker leaves an
\* executable hook file with exactly one gamm block, at its end, and before
\* the block the lines the file had (up to its last non-blank line; a new
\* file gets a shebang and `set -e`); init on a file that has the marker
\* leaves the file as it was; so the file has exactly one block after any
\* number of init runs.
C17_InitIdempotent ==
    cli.cmd = "init" =>
        LET old == cli.before.hook.file
            lines == Lines(hook.file.content)
            start == TheStart(hook.file.content)
        IN  /\ hook.dir /\ hook.file.exists
            /\ ExactlyOneBlock(hook.file.content)
            /\ IF HasMarker(old)
               THEN hook.file = old
               ELSE /\ hook.file.mode = "755"
                    /\ TheEnd(hook.file.content) = Len(lines)
                    /\ DropTrailingBlank(SubSeq(lines, 1, start - 1))
                         = IF old.exists THEN DropTrailingBlank(Lines(old.content))
                           ELSE <<<<"#!/bin/sh">>, <<"set -e">>>>

\* a second init, on a file that has a line added by hand after the block
C17_Witness ==
    /\ cli.cmd = "init"
    /\ HasMarker(cli.before.hook.file)
    /\ TheEnd(hook.file.content) < Len(Lines(hook.file.content))

\* what the hook file should be after the block was taken out of `old`,
\* given the lines that are to be left
AfterCleanup(old, rest) ==
    IF \A i \in DOMAIN rest :
           IsBlank(rest[i]) \/ StartsWith(rest[i], "#!") \/ StartsWith(rest[i], "set -e")
    THEN ~hook.file.exists /\ (hook.dir <=> cli.before.hook.other)
    ELSE /\ hook.file.exists /\ hook.dir
         /\ Lines(hook.file.content) = rest

\* C18 as claimed: cleanup on a hook file with the gamm block removes
\* exactly the lines from the start marker through the end marker and keeps
\* every other line, in order; if those are only blank lines, a shebang and
\* `set -e`, the file is deleted, and the directory with it if then empty.
C18_StripsExactlyTheBlock ==
    (cli.cmd = "cleanup" /\ ExactlyOneBlock(cli.before.hook.file.content)) =>
        LET old == cli.before.hook.file.content IN
        AfterCleanup(old, Outside(Lines(old), TheStart(old), TheEnd(old)))

\* C18 as amended: cleanup removes the lines from the start marker through
\* the end marker and the blank lines left at the end of the file, and
\* keeps every other line, in order; if those are only blank lines, a
\* shebang and `set -e`, the file is deleted, and the directory with it if
\* then empty; init followed by cleanup where there was no hook file leaves
\* no hook file.
C18_StripsBlockAndTrailingBlanks ==
    (cli.cmd = "cleanup" /\ ExactlyOneBlock(cli.before.hook.file.content)) =>
        LET old == cli.before.hook.file.content IN
        /\ AfterCleanup(old, DropTrailingBlank(Outside(Lines(old), TheStart(old),
                                                       TheEnd(old))))
        /\ (old = NewHookContent(NoHookFile)) => ~hook.file.exists

\* a block taken out from between lines written by hand
C18_Witness ==
    /\ cli.cmd = "cleanup"
    /\ ExactlyOneBlock(cli.before.hook.file.content)
    /\ TheStart(cli.before.hook.file.content) > 1
    /\ TheEnd(cli.before.hook.file.content)
           < Len(Lines(cli.before.hook.file.content))
    /\ hook.file.exists

\* C19: after cleanup returns Ok neither store file exists and their
\* directory is gone unless another file is in it, whatever the hook file
\* was.
C19_CleanupDeletesStores ==
    (cli.cmd = "cleanup" /\ cli.exit = 0) =>
        /\ ~cfgFile.exists
        /\ ~repoFile.exists
        /\ ConfigDirExists => hook.cfgOther

-----------------------------------------------------------------------------
(* Properties of the two stores (specification SpecStore)                  *)

\* the last of the first n calls that is one of `ops` on `key`, or 0
Latest(n, ops, key) ==
    LET S == {i \in 1..n : mem.calls[i].op \in ops /\ mem.calls[i].key = key}
    IN  IF S = {} THEN 0 ELSE Max(S)

\* what the first n calls leave under the profile name P
ExpectedProfile(n, P) ==
    LET i == Latest(n, {"add", "remove"}, P)
    IN  IF i = 0 THEN None
        ELSE IF mem.calls[i].op = "remove" THEN None
        ELSE Some(mem.calls[i].val)

\* the owner the first n calls leave for the url U
ExpectedOwner(n, U) ==
    LET i == Latest(n, {"repo_add", "add_repo", "remove_by_url"}, U)
    IN  IF i = 0 THEN None
        ELSE IF mem.calls[i].op = "remove_by_url" THEN None
        ELSE Some(mem.calls[i].val)

\* C12: after any sequence of add and remove, get(P) is the config of the
\* last add(P, cfg) if no remove(P) came after it, and absent otherwise
\* (so a later add wins, and calls on other names change nothing); remove(P)
\* returns the config it removed, or absent when there was none.
C12_ProfileStoreIsMap ==
    LET n == Len(mem.calls) IN
    /\ \A P \in ProfileNames : Get(mem.configs, P) = ExpectedProfile(n, P)
    /\ DOMAIN mem.configs \subseteq ProfileNames
    /\ (n > 0 /\ mem.calls[n].op = "remove") =>
           mem.returned = ExpectedProfile(n - 1, mem.calls[n].key)

\* two different configs added under one name, then the other name, absent,
\* removed
C12_Witness ==
    /\ Len(mem.calls) = 3
    /\ mem.calls[1].op = "add" /\ mem.calls[2].op = "add"
    /\ mem.calls[1].key = mem.calls[2].key
    /\ mem.calls[1].val /= mem.calls[2].val
    /\ mem.calls[3].op = "remove" /\ mem.calls[3].key /= mem.calls[1].key
    /\ mem.returned = None

\* C13: after any sequence of add, add_repo and remove_by_url,
\* lookup_owner_by_url(U) is the owner given by the last add for U if U was
\* not removed after it, and absent otherwise; no two entries have the same
\* url, and each entry sits under its own url.
C13_RepoStoreKeyedByUrl ==
    LET n == Len(mem.calls) IN
    /\ \A U \in Urls :
         /\ lookup_owner_by_url(mem.repos, U) = ExpectedOwner(n, U)
         /\ Cardinality({k \in DOMAIN mem.repos : mem.repos[k].url = U}) <= 1
    /\ \A k \in DOMAIN mem.repos : mem.repos[k].url = k

\* an entry replaced through add_repo by one of another owner
C13_Witness ==
    /\ Len(mem.calls) >= 2
    /\ mem.calls[1].op = "repo_add" /\ mem.calls[2].op = "add_repo"
    /\ mem.calls[1].key = mem.calls[2].key
    /\ mem.calls[1].val /= mem.calls[2].val
    /\ Cardinality(DOMAIN mem.repos) = 1

\* C14: deserializing the serialized form of the two stores gives stores
\* equal to the ones serialized, whatever fields are empty or absent.
C14_RoundTrip ==
    IsSome(mem.saved) => mem.loaded = mem.saved

\* a round trip of a profile without signoff, one with an empty signoff and
\* a repository entry
C14_Witness ==
    /\ IsSome(mem.saved)
    /\ \E P \in DOMAIN mem.configs : mem.configs[P].user.signoff = None
    /\ \E P \in DOMAIN mem.configs :
           /\ mem.configs[P].user.signoff = Some(<<>>)
           /\ mem.configs[P].user.email = <<>>
    /\ DOMAIN mem.repos /= {}

-----------------------------------------------------------------------------
(* Properties of whole sessions (specifications SpecDamaged and SpecCli)   *)

\* the file is there and its content is not a store's JSON
Damaged(file) == file = Malformed

\* C15: load gives an empty store for an absent file (a run for any url
\* then finds it unregistered, and has to create a first profile) and an
\* error for a malformed one; pre_commit, profile_delete and repo_delete
\* then exit non-zero and leave both store files and the global
\* configuration as they were.
C15_LoadErrors ==
    /\ \A p \in Procs :
         Finished(p) =>
           /\ (Damaged(hist[p].snap.repos) \/ Damaged(hist[p].snap.cfg)) =>
                  /\ hist[p].result = "Err" /\ hist[p].exit = 1
                  /\ Untouched(p)
                  /\ hist[p].applied = None /\ hist[p].created = {}
           /\ (~hist[p].snap.repos.exists /\ ~Damaged(hist[p].snap.cfg)) =>
                  hist[p].branch = "unknown"
           /\ ( /\ ~hist[p].snap.cfg.exists /\ hist[p].branch = "unknown"
                /\ hist[p].result /= "Err" ) => hist[p].created /= {}
    /\ (del.ran /\ (Damaged(del.cfg) \/ Damaged(del.repos))) =>
           /\ del.exit = 1
           /\ cfgFile = del.cfg /\ repoFile = del.repos
    /\ (cli.cmd = "repo_delete" /\ Damaged(cli.before.repos)) =>
           /\ cli.exit = 1
           /\ cfgFile = cli.before.cfg /\ repoFile = cli.before.repos

\* a run stopped by a malformed profile file next to a sound repository file
C15_Witness ==
    /\ Finished(Main)
    /\ Damaged(hist[Main].snap.cfg) /\ ~Damaged(hist[Main].snap.repos)
    /\ hist[Main].exit = 1

\* C20: in a session that starts with empty stores and in which nothing
\* fails, every entry of the repository file names a profile that is in the
\* profile file, and no run takes the dangling-reference branch.
C20_ReferentialIntegrity ==
    /\ \A u \in DOMAIN Load(repoFile) :
           Load(repoFile)[u].commit_by \in DOMAIN Load(cfgFile)
    /\ \A p \in Procs : hist[p].branch /= "dangling"

\* two profiles, an entry left after another was deleted by repo_delete
C20_Witness ==
    /\ cli.cmd = "repo_delete" /\ IsSome(cli.target)
    /\ DOMAIN Load(repoFile) /= {}
    /\ Cardinality(DOMAIN Load(cfgFile)) = 2

-----------------------------------------------------------------------------
(* Properties of concurrent runs (specification SpecConcurrent)            *)

\* the run registered its url and reported success
RegisteredOk(p) ==
    /\ Finished(p) /\ hist[p].branch = "unknown"
    /\ hist[p].agreed = Some(TRUE) /\ hist[p].result = "exit(1)"

\* two finished runs for different urls, each having loaded the repository
\* store (line 277) before the other saved it
Raced(p, q) ==
    /\ p /= q /\ RegisteredOk(p) /\ RegisteredOk(q)
    /\ loc[p].url /= loc[q].url
    /\ loc[p].url \notin DOMAIN loc[q].fresh
    /\ loc[q].url \notin DOMAIN loc[p].fresh

\* C16: when two runs registering different unknown urls both load the
\* repository store before either saves it, both report success and the
\* repository file ends with the entry of one of them only: the later save
\* overwrites the earlier one.
C16_LostUpdate ==
    \A p, q \in Procs :
        Raced(p, q) =>
            /\ (loc[p].url \in DOMAIN Load(repoFile))
                   /= (loc[q].url \in DOMAIN Load(repoFile))
            /\ Cardinality(DOMAIN Load(repoFile)) = 1

\* both runs done and reporting success, one entry in the file
C16_Witness ==
    /\ RegisteredOk(1) /\ RegisteredOk(2)
    /\ loc[1].url /= loc[2].url
    /\ DOMAIN Load(repoFile) = {loc[2].url}

-----------------------------------------------------------------------------
(* Properties of profile_delete when a write fails (specification Spec)    *)

\* the profile is gone from the profile file while the repository file
\* still holds an entry it owns
RemovedButOwning(name) ==
    /\ name \notin DOMAIN Load(cfgFile)
    /\ find_by_owner(Load(repoFile), name) /= {}

\* C22: if profile_delete returns an error, both store files are as they
\* were before it ran, so the profile it was to delete is never persisted
\* as removed while repository entries that name it as owner are persisted.
C22_AllOrNothing ==
    (del.ran /\ del.exit /= 0) =>
        /\ cfgFile = del.cfg
        /\ repoFile = del.repos
        /\ IsSome(del.target) => ~RemovedButOwning(Unwrap(del.target))

-----------------------------------------------------------------------------
(* Properties of a deletion during a commit (specification SpecStale)      *)

\* the profile store as profile_delete wrote it
AfterDeletion == Without(Load(del.cfg), Unwrap(del.target))

\* the run has written the profile file: add_config_interactive saved the
\* run's own copy of the store with the new profile in it
WroteProfiles(p) == hist[p].created /= {}

\* the run has written the repository file with its entry
WroteEntry(p) == pc[p] = "apply_new" \/ (Finished(p) /\ hist[p].result = "exit(1)")

\* C21 as stated: once profile_delete(P) has succeeded, P is absent from the
\* profile file and no entry of the repository file is owned by P, unless
\* a run created a profile named P, even when a run that loaded the
\* profile store before the deletion finishes after it.
C21_DeletedStaysDeleted ==
    Deleted =>
        LET P == Unwrap(del.target) IN
        (\A p \in Procs : P \notin hist[p].created) =>
            /\ P \notin DOMAIN Load(cfgFile)
            /\ find_by_owner(Load(repoFile), P) = {}

\* C21, amended: once profile_delete(P) has succeeded, the profile file is
\* what the deletion wrote, without P, until a run creates a profile; the
\* file is then that run's copy of the store, which holds P only if the
\* run loaded the store before the deletion or created P itself. An entry
\* of the repository file is owned by P only once a run has written the
\* file from its own copy: the entry is the one the run registered after
\* selecting P from its list or creating P, or one the deletion had
\* removed and the run had loaded before.
C21_DeletedUntilStaleWrite ==
    Deleted =>
        LET P == Unwrap(del.target) IN
        /\ \/ Load(cfgFile) = AfterDeletion
           \/ \E p \in Procs : WroteProfiles(p) /\ Load(cfgFile) = loc[p].config_store
        /\ P \in DOMAIN Load(cfgFile) =>
              \E p \in Procs :
                  /\ WroteProfiles(p)
                  /\ P \in DOMAIN StartConfigs(p) \/ P \in hist[p].created
        /\ \A r \in find_by_owner(Load(repoFile), P) :
              \E p \in Procs :
                  /\ WroteEntry(p)
                  /\ Load(repoFile) = RepoAdd(loc[p].fresh, NewEntry(loc[p]))
                  /\ \/ /\ r = NewEntry(loc[p])
                        /\ P \in DOMAIN StartConfigs(p) \/ P \in hist[p].created
                     \/ r \in find_by_owner(Load(del.repos), P)

\* the run began with "work" in the store, "work" was deleted while it was
\* at a prompt, the run then created "home" and finished: "work" is in the
\* profile file again
C21_Witness ==
    /\ Deleted /\ del.target = Some("work")
    /\ Finished(Main) /\ hist[Main].created = {"home"}
    /\ "work" \in DOMAIN Load(del.cfg)
    /\ DOMAIN Load(cfgFile) = {"work", "home"}

====
